---- MODULE Spec2Model ----
(***************************************************************************)
(* veloq: the namespace wrapper veloq:: -> veloqrs:: of                    *)
(* modules/veloqrs/cpp/veloq.h.                                            *)
(*                                                                         *)
(* veloq::installRustCrate(runtime, callInvoker) and                       *)
(* veloq::cleanupRustCrate(runtime) are inline functions whose whole body  *)
(* is `return veloqrs::<same name>(<same arguments>);`.  The namespace     *)
(* declares no variable: the wrapper keeps no state between calls.         *)
(*                                                                         *)
(* Host threads call the two functions on runtimes.  One call is three     *)
(* steps: the thread enters the function, the function invokes the         *)
(* veloqrs entry point (which runs and hands back a uint8_t), and the      *)
(* function returns that value to the host.  The veloqrs entry points are  *)
(* declared in veloqrs.h, which is not part of the sources at hand; they   *)
(* are modelled as an opaque module that, per runtime, is installed or     *)
(* not, and whose entry points report success (0) or a failure (nonzero).  *)
(***************************************************************************)
EXTENDS Integers, Sequences, FiniteSets, TLC

\* ---------------------------------------------------------------- bounds
\* Number of veloq:: calls the host threads make in one behaviour.
MaxCalls == 3

\* Number of veloq:: calls in one behaviour of the fair specification.
MaxFairCalls == 2

\* ------------------------------------------------------------- universes
\* Host threads that may call into the wrapper.
Threads == {"t1", "t2"}

\* jsi::Runtime instances (a C++ reference: cannot be null).
Handles == {"h1", "h2"}

\* std::shared_ptr<react::CallInvoker>: a live invoker or an empty pointer.
Invokers == {"invoker", "null"}

\* The two functions of namespace veloq, and the like-named veloqrs ones.
Fns == {"install", "cleanup"}

\* uint8_t: 8 bits.
StatusBits == 8

\* Values of the uint8_t return type.
Uint8 == 0 .. (2 ^ StatusBits - 1)

\* 0 is the success status.
Success == 0

\* The statuses the opaque entry points are seen to report here: success and
\* two different failures from both ends of the uint8_t range.
DelegateStatuses == {Success, 1, 2 ^ StatusBits - 1}

\* ----------------------------------------------------------------- state
VARIABLES
  pc,        \* pc[t]: "idle", "entered" (in the wrapper, delegate not yet
             \*        invoked) or "forwarded" (delegate has returned)
  call,      \* call[t]: the call thread t is executing
  result,    \* result[t]: the last call thread t completed
  module,    \* module[h]: the opaque module is installed in runtime h
  inv,       \* inv[f][h]: times veloqrs entry point f was invoked on h
  entered,   \* entered[f][h]: times veloq function f was called on h
  active,    \* active[h]: successful veloqrs installs on h since the last
             \*            veloqrs cleanup invocation on h
  teardowns, \* teardowns[h]: veloqrs cleanup invocations on h since the
             \*            last successful veloqrs install on h
  installs,  \* installs[h]: a veloqrs install on h has succeeded
  last,      \* last[h]: the veloq function whose delegate call was the
             \*            last to succeed on h ("none": no such call yet)
  state,     \* state[h]: "Installed" iff a veloq install on h returned
             \*            Success and no veloq cleanup on h was called since
  cycles,    \* cycles[h]: completed install -> cleanup cycles on h
  failed     \* failed[h]: a veloq install on h has returned a failure

vars == <<pc, call, result, module, inv, entered, active, teardowns,
          installs, last, state, cycles, failed>>

\* The wrapper's own state: namespace veloq declares no variable, so it
\* holds no InstallationRecord for any runtime.
registry == {}

\* No call.
NoCall == [fn |-> "none"]

\* A call record: the arguments; what had happened on the runtime when the
\* host called (pre: state, cyc: cycles, retry: failed); whether another
\* thread was inside a call on the same runtime meanwhile (raced); what
\* reached the delegate (fwd) and how many times the like-named entry point
\* was invoked on the runtime (hits); what the delegate reported (dstatus);
\* what the wrapper returned (status); and whether the module was installed
\* in the runtime at the return (post).
NewCall(fn, rt, ci, pre, cyc, retry, raced) ==
  [fn |-> fn, runtime |-> rt, callInvoker |-> ci, pre |-> pre, cyc |-> cyc,
   retry |-> retry, raced |-> raced, fwd |-> <<>>, hits |-> 0,
   dstatus |-> -1, status |-> -1, post |-> FALSE]

\* ------------------------------------------------- the wrapper, piecewise
\* A wrapper whose install body calls the cleanup entry point (a body
\* copied from the function below it).
DelegateEntryCleanup(fn) == "cleanup"

\* Which veloqrs entry point a veloq function calls: the like-named one.
DelegateEntry(fn) == fn

\* A wrapper that hands the delegate one fixed runtime (a reference kept
\* from an earlier call) instead of the one it received.
ForwardedRuntimeFirst(rt) == "h1"

\* The runtime the wrapper hands to the delegate: the one it received.
ForwardedRuntime(rt) == rt

\* A wrapper that hands the delegate an empty pointer (the shared_ptr moved
\* from before the call).
ForwardedInvokerDropped(ci) == IF ci = "none" THEN "none" ELSE "null"

\* The call invoker the wrapper hands to the delegate: the one it received.
ForwardedInvoker(ci) == ci

\* A wrapper that drops the delegate's status and reports success.
ReturnStatusMasked(dstatus) == Success

\* A wrapper that treats the uint8_t as a bool and returns true.
ReturnStatusTrue(dstatus) == 1

\* The wrapper's return value: the delegate's uint8_t, unchanged.
ReturnStatus(dstatus) == dstatus % (2 ^ StatusBits)

\* ------------------------------------------------------ the opaque module
\* veloqrs::installRustCrate / veloqrs::cleanupRustCrate on runtime h
\* reporting status s: a successful install installs the module, a
\* successful cleanup removes it, a failure leaves it as it was.
DelegateModule(entry, h, s) ==
  IF s # Success THEN module
  ELSE [module EXCEPT ![h] = (entry = "install")]

\* Calls made so far.
TotalCalls ==
  entered["install"]["h1"] + entered["install"]["h2"]
  + entered["cleanup"]["h1"] + entered["cleanup"]["h2"]

\* Threads other than t that are inside a call on runtime h.
Others(t, h) ==
  {u \in Threads \ {t} : pc[u] # "idle" /\ call[u].runtime = h}

\* A wrapper that waits until no other thread is inside a call on the
\* runtime before it invokes the delegate.
BlockedByOther(t) == Others(t, call[t].runtime) # {}

\* Whether the wrapper makes thread t wait before the delegate call: its
\* body is the one return statement, with no lock and no wait.
Blocked(t) == FALSE

\* Calls of veloq function fn on h that have not yet invoked the delegate.
Pending(fn, h) ==
  Cardinality({t \in Threads : /\ pc[t] = "entered"
                               /\ call[t].fn = fn
                               /\ call[t].runtime = h})

\* ----------------------------------------------------------------- Init
Init ==
  /\ pc = [t \in Threads |-> "idle"]
  /\ call = [t \in Threads |-> NoCall]
  /\ result = [t \in Threads |-> NoCall]
  /\ module = [h \in Handles |-> FALSE]
  /\ inv = [f \in Fns |-> [h \in Handles |-> 0]]
  /\ entered = [f \in Fns |-> [h \in Handles |-> 0]]
  /\ active = [h \in Handles |-> 0]
  /\ teardowns = [h \in Handles |-> 0]
  /\ installs = [h \in Handles |-> FALSE]
  /\ last = [h \in Handles |-> "none"]
  /\ state = [h \in Handles |-> "Uninstalled"]
  /\ cycles = [h \in Handles |-> 0]
  /\ failed = [h \in Handles |-> FALSE]

\* -------------------------------------------------------------- actions
\* Thread t enters veloq function fn with runtime h and call invoker ci.
Enter(t, fn, h, ci) ==
  /\ pc[t] = "idle"
  /\ TotalCalls < MaxCalls
  /\ pc' = [pc EXCEPT ![t] = "entered"]
  /\ call' = [u \in Threads |->
                IF u = t
                THEN NewCall(fn, h, ci, state[h], cycles[h], failed[h],
                             Others(t, h) # {})
                ELSE IF u \in Others(t, h)
                     THEN [call[u] EXCEPT !.raced = TRUE]
                     ELSE call[u]]
  /\ entered' = [entered EXCEPT ![fn][h] = @ + 1]
  /\ state' = IF fn = "cleanup" THEN [state EXCEPT ![h] = "Uninstalled"]
              ELSE state
  /\ UNCHANGED <<result, module, inv, active, teardowns, installs, last,
                 cycles, failed>>

\* The host calls veloq::installRustCrate(h, ci) on thread t.
installRustCrate(t, h, ci) == Enter(t, "install", h, ci)

\* The host calls veloq::cleanupRustCrate(h) on thread t.
cleanupRustCrate(t, h) == Enter(t, "cleanup", h, "none")

\* The body of the wrapper up to the delegate's return: the veloqrs entry
\* point runs on the forwarded arguments and reports status s.
Forward(t, s) ==
  /\ pc[t] = "entered"
  /\ ~Blocked(t)
  /\ LET c == call[t]
         e == DelegateEntry(c.fn)
         h == ForwardedRuntime(c.runtime)
         ci == ForwardedInvoker(c.callInvoker)
         inv2 == [inv EXCEPT ![e][h] = @ + 1]
     IN /\ inv' = inv2
        /\ module' = DelegateModule(e, h, s)
        /\ active' = [active EXCEPT ![h] =
                        IF e = "cleanup" THEN 0
                        ELSE IF s = Success THEN @ + 1 ELSE @]
        /\ teardowns' = [teardowns EXCEPT ![h] =
                        IF e = "cleanup" THEN @ + 1
                        ELSE IF s = Success THEN 0 ELSE @]
        /\ installs' = [installs EXCEPT ![h] =
                        (@ \/ (e = "install" /\ s = Success))]
        /\ last' = IF s = Success THEN [last EXCEPT ![h] = c.fn] ELSE last
        /\ call' = [call EXCEPT ![t] =
                      [c EXCEPT !.fwd = <<e, h, ci>>,
                                !.hits = inv2[c.fn][c.runtime]
                                         - inv[c.fn][c.runtime],
                                !.dstatus = s]]
  /\ pc' = [pc EXCEPT ![t] = "forwarded"]
  /\ UNCHANGED <<result, entered, state, cycles, failed>>

\* The wrapper's return statement hands the status to the host.
Return(t) ==
  /\ pc[t] = "forwarded"
  /\ LET c == call[t]
         st == ReturnStatus(c.dstatus)
         h == c.runtime
     IN /\ result' = [result EXCEPT ![t] =
                        [c EXCEPT !.status = st, !.post = module[h]]]
        /\ state' = IF c.fn = "install" /\ st = Success
                    THEN [state EXCEPT ![h] = "Installed"]
                    ELSE state
        /\ cycles' = IF c.fn = "cleanup" /\ st = Success
                        /\ c.pre = "Installed"
                     THEN [cycles EXCEPT ![h] = @ + 1]
                     ELSE cycles
        /\ failed' = IF c.fn = "install" /\ st # Success
                     THEN [failed EXCEPT ![h] = TRUE]
                     ELSE failed
  /\ pc' = [pc EXCEPT ![t] = "idle"]
  /\ call' = [call EXCEPT ![t] = NoCall]
  /\ UNCHANGED <<module, inv, entered, active, teardowns, installs, last>>

Next ==
  \/ \E t \in Threads, h \in Handles, ci \in Invokers :
       installRustCrate(t, h, ci)
  \/ \E t \in Threads, h \in Handles : cleanupRustCrate(t, h)
  \/ \E t \in Threads, s \in DelegateStatuses : Forward(t, s)
  \/ \E t \in Threads : Return(t)

Spec == Init /\ [][Next]_vars

\* The steps of the behaviours checked for progress: those of Next, up to
\* MaxFairCalls calls.
FairNext ==
  \/ \E t \in Threads, h \in Handles, ci \in Invokers :
       installRustCrate(t, h, ci) /\ TotalCalls' <= MaxFairCalls
  \/ \E t \in Threads, h \in Handles :
       cleanupRustCrate(t, h) /\ TotalCalls' <= MaxFairCalls
  \/ \E t \in Threads, s \in DelegateStatuses : Forward(t, s)
  \/ \E t \in Threads : Return(t)

\* A thread inside a call keeps running: the delegate call it is about to
\* make is made and returns, and the return statement it reached executes.
FairSpec ==
  /\ Init /\ [][FairNext]_vars
  /\ \A t \in Threads :
       /\ WF_vars(\E s \in DelegateStatuses : Forward(t, s))
       /\ WF_vars(Return(t))

\* ------------------------------------------------------------ type check
TypeOK ==
  /\ pc \in [Threads -> {"idle", "entered", "forwarded"}]
  /\ module \in [Handles -> BOOLEAN]
  /\ \A t \in Threads : result[t].fn # "none" => result[t].status \in Uint8
  /\ TotalCalls <= MaxCalls

\* ------------------------------------------------------- common notions
\* The completed calls the host has in hand.
Results == {result[t] : t \in Threads} \ {NoCall}

\* A status that reports an error (AlreadyInstalled, NotInstalled,
\* InvalidArgument, DelegateInstallFailed, DelegateCleanupFailed are
\* nonzero statuses).
IsError(st) == st # Success

\* The call reached the like-named entry point once, with the runtime and
\* the call invoker it was given, and returned what that entry point reported.
ForwardedOnce(r) ==
  /\ r.hits = 1
  /\ r.fwd = <<r.fn, r.runtime, r.callInvoker>>
  /\ r.status = r.dstatus

\* ------------------------------------------------------------------- C1
\* C1 (as claimed): in every reachable state each runtime has at most one
\* active installation: the install entry point has never succeeded on a
\* runtime a second time without a delegate cleanup on it in between.
C1_AtMostOneActive == \A h \in Handles : active[h] <= 1

\* C1 (amended): the wrapper does not limit a runtime to one active
\* installation; what it keeps is one invocation of the install entry point
\* per install call: on every runtime the entry point has been invoked as
\* many times as install calls on it have passed their forwarding step, and
\* the active installations never outnumber those invocations.
C1_OneInvocationPerInstall ==
  \A h \in Handles :
    /\ inv["install"][h] = entered["install"][h] - Pending("install", h)
    /\ active[h] <= inv["install"][h]

\* C1 witness: a runtime with two active installations.
C1_Witness == \E h \in Handles : active[h] = 2 /\ inv["install"][h] = 2

\* ------------------------------------------------------------------- C2
\* C2 (as claimed): install on a runtime that is already installed returns
\* AlreadyInstalled, does not invoke the install entry point, and leaves
\* exactly one record for the runtime in the registry.
C2_SecondInstallInert ==
  \A r \in Results :
    (r.fn = "install" /\ r.pre = "Installed") =>
      /\ IsError(r.status)
      /\ r.hits = 0
      /\ Cardinality(registry \cap {r.runtime}) = 1

\* C2 (amended): install on a runtime that is already installed is
\* forwarded like any other: the install entry point is invoked once more
\* with the same runtime and call invoker, the call returns what that
\* invocation reported, and the wrapper holds no record for the runtime.
C2_SecondInstallForwarded ==
  \A r \in Results :
    (r.fn = "install" /\ r.pre = "Installed") =>
      /\ ForwardedOnce(r)
      /\ r.runtime \notin registry

\* C2 witness: a second install on an installed runtime returned Success.
C2_Witness ==
  \E r \in Results :
    /\ r.fn = "install" /\ r.pre = "Installed" /\ ~r.raced
    /\ r.callInvoker = "invoker"
    /\ r.status = Success /\ inv["install"][r.runtime] = 2

\* ------------------------------------------------------------------- C3
\* C3 (as claimed): cleanup on a runtime with no active installation
\* returns NotInstalled and does not invoke the cleanup entry point.
C3_CleanupNotInstalledInert ==
  \A r \in Results :
    (r.fn = "cleanup" /\ r.pre = "Uninstalled") =>
      /\ IsError(r.status)
      /\ r.hits = 0

\* C3 (amended): cleanup on a runtime with no active installation is
\* forwarded: the cleanup entry point is invoked once on that runtime and
\* the call returns the status the entry point reported, whatever it is.
C3_CleanupNotInstalledForwarded ==
  \A r \in Results :
    (r.fn = "cleanup" /\ r.pre = "Uninstalled") =>
      /\ ForwardedOnce(r)
      /\ r.status \in DelegateStatuses

\* C3 witness: cleanup on a never-installed runtime reached the cleanup
\* entry point and returned the Success it reported.
C3_Witness ==
  \E r \in Results :
    /\ r.fn = "cleanup" /\ r.pre = "Uninstalled" /\ ~r.raced
    /\ entered["install"][r.runtime] = 0
    /\ r.status = Success /\ inv["cleanup"][r.runtime] >= 1

\* ------------------------------------------------------------------- C4
\* C4: with a live call invoker and a delegate that does not fail, install
\* on an Uninstalled runtime returns Success (0), the cleanup that follows
\* it returns Success (0), and the runtime is Uninstalled after that cleanup
\* (no other thread being inside a call on the runtime meanwhile).
C4_InstallThenCleanupSucceed ==
  \A r \in Results :
    /\ (/\ r.fn = "install" /\ r.pre = "Uninstalled"
        /\ r.callInvoker = "invoker" /\ r.dstatus = Success)
         => r.status = Success
    /\ (r.fn = "cleanup" /\ r.pre = "Installed" /\ r.dstatus = Success)
         => /\ r.status = Success
            /\ ~r.raced => ~r.post

\* C4 witness: a cleanup that followed a successful install has returned
\* Success and left the runtime without the module.
C4_Witness ==
  \E r \in Results :
    /\ r.fn = "cleanup" /\ r.pre = "Installed" /\ ~r.raced
    /\ r.status = Success /\ ~r.post
    /\ inv["install"][r.runtime] = 1 /\ inv["cleanup"][r.runtime] = 1

RacingInstalls(h, r1, r2) ==
  /\ \A t \in Threads : pc[t] = "idle"
  /\ r1 = result["t1"] /\ r2 = result["t2"]
  /\ r1.fn = "install" /\ r2.fn = "install"
  /\ r1.runtime = h /\ r2.runtime = h
  /\ r1.raced /\ r2.raced
  /\ entered["install"][h] = 2 /\ entered["cleanup"][h] = 0
  /\ ~IsError(r1.dstatus) /\ ~IsError(r2.dstatus)

\* C7 (as claimed): of two concurrent installs on one Uninstalled runtime
\* exactly one returns Success, the other returns AlreadyInstalled, and the
\* install entry point is invoked exactly once for the runtime.
C7_ExactlyOneRacingInstallWins ==
  \A h \in Handles : \A r1, r2 \in Results :
    RacingInstalls(h, r1, r2) =>
      /\ (r1.status = Success) # (r2.status = Success)
      /\ IsError(r1.status) \/ IsError(r2.status)
      /\ inv["install"][h] = 1

\* C7 (amended): of two concurrent installs on one Uninstalled runtime,
\* under every interleaving each invokes the install entry point once (two
\* invocations for the runtime) and each returns Success; none returns
\* AlreadyInstalled.
C7_BothRacingInstallsForwarded ==
  \A h \in Handles : \A r1, r2 \in Results :
    RacingInstalls(h, r1, r2) =>
      /\ r1.status = Success /\ r2.status = Success
      /\ ForwardedOnce(r1) /\ ForwardedOnce(r2)
      /\ inv["install"][h] = 2

\* C7 witness: two installs that raced on one runtime have both returned
\* Success.
C7_Witness ==
  \E h \in Handles : \E r1, r2 \in Results :
    /\ RacingInstalls(h, r1, r2)
    /\ r1.status = Success /\ r2.status = Success /\ active[h] = 2

\* ------------------------------------------------------------------- C8
\* An install and a cleanup on runtime h, by different threads, overlapped
\* and have both returned.
RacingInstallCleanup(h, r1, r2) ==
  /\ \A t \in Threads : pc[t] = "idle"
  /\ \E t, u \in Threads : t # u /\ r1 = result[t] /\ r2 = result[u]
  /\ r1.fn = "install" /\ r2.fn = "cleanup"
  /\ r1.runtime = h /\ r2.runtime = h
  /\ r1.raced /\ r2.raced

\* C8 (as claimed): once a racing install and cleanup on one runtime have
\* both returned, the registry holds a record for the runtime if and only
\* if the opaque module is installed in it.
C8_RegistryAgreesWithModule ==
  \A h \in Handles : \A r1, r2 \in Results :
    RacingInstallCleanup(h, r1, r2) => ((h \in registry) <=> module[h])

\* C8 (amended): the wrapper holds no record that could agree or disagree
\* with the module. Once a racing install and cleanup on one runtime have
\* both returned, each has invoked its entry point once and returned its
\* status, and the module is installed in the runtime if and only if the
\* last delegate call to succeed on it was made by an install.
C8_DelegateOrderDecides ==
  \A h \in Handles : \A r1, r2 \in Results :
    RacingInstallCleanup(h, r1, r2) =>
      /\ h \notin registry
      /\ ForwardedOnce(r1) /\ ForwardedOnce(r2)
      /\ module[h] <=> (last[h] = "install")

\* C8 witness: an install and a cleanup raced on a runtime nobody else
\* touched, both returned Success, and the module is installed.
C8_Witness ==
  \E h \in Handles : \E r1, r2 \in Results :
    /\ RacingInstallCleanup(h, r1, r2)
    /\ entered["install"][h] = 1 /\ entered["cleanup"][h] = 1
    /\ r1.status = Success /\ r2.status = Success
    /\ module[h]

\* ------------------------------------------------------------------- C9
\* C9 (as claimed): cleanup surfaces a delegate failure as
\* DelegateCleanupFailed, and for one successful install the cleanup entry
\* point is invoked at most once however often cleanup is called.
C9_AtMostOneTeardown ==
  /\ \A r \in Results :
       (r.fn = "cleanup" /\ r.pre = "Installed" /\ IsError(r.dstatus))
         => IsError(r.status)
  /\ \A h \in Handles : installs[h] => teardowns[h] <= 1

\* C9 (amended): cleanup forwards to the cleanup entry point on every call
\* and surfaces a delegate failure as the failure status the delegate
\* reported; the wrapper holds no record to remove, so the cleanup entry
\* point is invoked once per cleanup call, as often as cleanup is called.
C9_OneTeardownPerCleanup ==
  /\ \A r \in Results :
       (r.fn = "cleanup" /\ IsError(r.dstatus))
         => (IsError(r.status) /\ r.status = r.dstatus)
  /\ \A h \in Handles :
       inv["cleanup"][h] = entered["cleanup"][h] - Pending("cleanup", h)

\* C9 witness: after one successful install the cleanup entry point has
\* been invoked twice, and a cleanup returned the delegate's failure.
C9_Witness ==
  \E h \in Handles :
    /\ installs[h] /\ inv["install"][h] = 1
    /\ teardowns[h] = 2 /\ inv["cleanup"][h] = 2
    /\ \E r \in Results :
         r.fn = "cleanup" /\ r.runtime = h /\ IsError(r.status)

\* ------------------------------------------------------------------ C10
\* C10 (as claimed): install with a null call invoker returns
\* InvalidArgument and does not invoke the install entry point, whether or
\* not the runtime is installed.
C10_NullInvokerRejected ==
  \A r \in Results :
    (r.fn = "install" /\ r.callInvoker = "null") =>
      /\ IsError(r.status)
      /\ r.hits = 0

\* C10 (amended): install does not validate its arguments: with a null
\* call invoker it invokes the install entry point once, handing it the
\* runtime and the null invoker it received, and returns the status the
\* entry point reported, whether or not the runtime is installed.
C10_NullInvokerForwarded ==
  \A r \in Results :
    (r.fn = "install" /\ r.callInvoker = "null") =>
      /\ r.hits = 1
      /\ r.fwd = <<"install", r.runtime, "null">>
      /\ r.status = r.dstatus /\ r.status \in Uint8

\* C10 witness: an install with a null call invoker reached the install
\* entry point and returned Success.
C10_Witness ==
  \E r \in Results :
    /\ r.fn = "install" /\ r.callInvoker = "null"
    /\ r.fwd = <<"install", r.runtime, "null">>
    /\ r.status = Success /\ r.post

\* ------------------------------------------------------------------ C11
\* The runtime the call of thread t is on, in a step that thread t takes.
StepRuntime(t) == IF pc[t] = "idle" THEN call'[t].runtime ELSE call[t].runtime

\* Nothing recorded about runtime h changes in the step.
RuntimeUntouched(h) ==
  /\ module'[h] = module[h]
  /\ state'[h] = state[h]
  /\ active'[h] = active[h]
  /\ \A f \in Fns : inv'[f][h] = inv[f][h]
  /\ h \notin registry

\* C11: installs on distinct runtimes are independent: every step of an
\* install or cleanup on one runtime leaves the installation state of every
\* other runtime unchanged, and an install whose delegate call succeeded
\* returns Success whatever the other thread is doing on another runtime.
C11_DistinctHandlesIndependent ==
  [][\A t \in Threads :
       pc'[t] # pc[t] =>
         /\ \A h2 \in Handles \ {StepRuntime(t)} : RuntimeUntouched(h2)
         /\ (/\ pc[t] = "forwarded" /\ call[t].fn = "install"
             /\ call[t].dstatus = Success)
              => /\ result'[t].status = Success
                 /\ ~call[t].raced => module[call[t].runtime]
    ]_vars

\* C11 witness: two installs on distinct runtimes are in flight together,
\* both past a successful delegate call, and both modules are installed.
C11_Witness ==
  /\ pc["t1"] = "forwarded" /\ pc["t2"] = "forwarded"
  /\ call["t1"].fn = "install" /\ call["t2"].fn = "install"
  /\ call["t1"].runtime # call["t2"].runtime
  /\ call["t1"].dstatus = Success /\ call["t2"].dstatus = Success
  /\ \A h \in Handles : module[h] /\ inv["install"][h] = 1

\* ------------------------------------------------------------------ C12
\* The status kind the claimed taxonomy gives a completed call: argument
\* check first, then the registry check, then the delegate's outcome.
Kind(r) ==
  IF r.fn = "install"
  THEN IF r.callInvoker = "null" THEN "InvalidArgument"
       ELSE IF r.pre = "Installed" THEN "AlreadyInstalled"
       ELSE IF IsError(r.dstatus) THEN "DelegateInstallFailed"
       ELSE "Success"
  ELSE IF r.pre = "Uninstalled" THEN "NotInstalled"
       ELSE IF IsError(r.dstatus) THEN "DelegateCleanupFailed"
       ELSE "Success"

\* C12 (as claimed): every call returns a uint8_t status that is 0 exactly
\* when the operation took effect, and calls that end in different kinds
\* (Success, AlreadyInstalled, NotInstalled, InvalidArgument,
\* DelegateInstallFailed, DelegateCleanupFailed) return different values.
C12_StatusTellsKind ==
  /\ \A r \in Results :
       /\ r.status \in Uint8
       /\ (r.status = Success) <=> (Kind(r) = "Success")
  /\ \A r1, r2 \in Results : Kind(r1) # Kind(r2) => r1.status # r2.status

\* C12 (amended): every call returns a uint8_t status, which is the value
\* the delegate's entry point reported: 0 exactly when the delegate
\* reported success, and then the delegate's operation has taken effect
\* (no other thread being inside a call on the runtime); a nonzero status
\* is the delegate's own failure value, not one of five wrapper codes.
C12_StatusIsDelegateStatus ==
  \A r \in Results :
    /\ r.status \in Uint8
    /\ r.status \in DelegateStatuses /\ r.status = r.dstatus
    /\ (r.status = Success) <=> ~IsError(r.dstatus)
    /\ (r.status = Success /\ ~r.raced) => (r.post <=> (r.fn = "install"))

\* C12 witness: an install on an already installed runtime returned 0, and
\* another call returned the delegate's failure value 255.
C12_Witness ==
  \E r1, r2 \in Results :
    /\ Kind(r1) = "AlreadyInstalled" /\ r1.status = Success
    /\ r2.status = 2 ^ StatusBits - 1 /\ r2.dstatus = r2.status

\* ------------------------------------------------------------------ C14
\* C14: the two veloq functions are pure forwarders: every call invokes the
\* like-named veloqrs entry point exactly once with the runtime (and call
\* invoker) it received, returns the delegate's status unchanged, and the
\* wrapper keeps no state, so on every runtime each entry point has been
\* invoked exactly as often as the veloq function was called (calls that
\* have not yet reached the delegate aside).
C14_PureForwarders ==
  /\ \A r \in Results : ForwardedOnce(r)
  /\ \A t \in Threads :
       pc[t] = "forwarded" =>
         /\ call[t].hits = 1
         /\ call[t].fwd = <<call[t].fn, call[t].runtime, call[t].callInvoker>>
         /\ ReturnStatus(call[t].dstatus) = call[t].dstatus
  /\ \A f \in Fns : \A h \in Handles :
       inv[f][h] = entered[f][h] - Pending(f, h)
  /\ registry = {}

\* C14 witness: an install with a live call invoker and a cleanup have both
\* been forwarded and returned, one of them the delegate's failure 255.
C14_Witness ==
  \E r1, r2 \in Results :
    /\ r1.fn = "install" /\ r1.callInvoker = "invoker"
    /\ r1.fwd = <<"install", r1.runtime, "invoker">> /\ r1.hits = 1
    /\ r2.fn = "cleanup" /\ r2.fwd = <<"cleanup", r2.runtime, "none">>
    /\ r2.status = 2 ^ StatusBits - 1 /\ r2.dstatus = 2 ^ StatusBits - 1
    /\ r1.status = Success

\* ------------------------------------------------------------------ C16
\* C16: under fair scheduling every call that was invoked returns a status:
\* a thread inside install or cleanup is eventually outside it again,
\* whatever the other thread does on the same or another runtime.
C16_EveryCallReturns ==
  \A t \in Threads : (pc[t] # "idle") ~> (pc[t] = "idle")

\* C16 witness: a call that overlapped with another thread's call on the
\* same runtime has returned a status while that other call is in flight.
C16_Witness ==
  \E t, u \in Threads :
    /\ t # u /\ pc[t] = "idle" /\ pc[u] # "idle"
    /\ result[t] # NoCall /\ result[t].raced
    /\ result[t].runtime = call[u].runtime
    /\ result[t].status \in Uint8

====
